---- MODULE Spec2Model ----
(***************************************************************************)
(* A model of the statement matcher, the import orchestrator and the       *)
(* reconciliation session of the QuickBooks Online CLI                     *)
(* (src/src/qb/commands/import_cmd.py, src/src/qb/commands/reconcile.py).  *)
(*                                                                         *)
(* Amounts are integers in cents.  Dates are the strings the code handles; *)
(* datetime.strptime is the table DayOf.  A dictionary key that is absent  *)
(* is the value NoKey.                                                     *)
(***************************************************************************)
EXTENDS Integers, Sequences, FiniteSets, TLC

VARIABLES
    pc,             \* where the modelled command is
    imported,       \* _match_transactions: the statement records
    existing,       \* _match_transactions: the ledger records
    tolerance_days, \* _match_transactions: the date tolerance
    idx,            \* number of statement records the outer loop has finished
    matched,        \* the 'matched' bucket
    probable,       \* the 'probable' bucket
    unmatched,      \* the 'unmatched' bucket
    file,           \* bank: the statement file
    ledger,         \* the documents held by the ledger, in creation order
    dry_run,        \* bank: --dry-run
    run,            \* bank: 1 for the first run of the command, 2 for the second
    window,         \* bank: start and end of the query window
    failed,         \* bank: the document types whose query raised in this run
    created,        \* bank: the 'created' list of this run
    posts,          \* the create calls sent to the ledger, over both runs
    report,         \* what the command printed
    first,          \* what the first run of the command left behind
    account_id,     \* --account-id
    queries,        \* the queries this run of the command sent to the ledger
    store,          \* reconcile: the session files in the workspace, by file name
    history,        \* reconcile: the sessions written by start, oldest first
    detected,       \* _detect_format: the backend chosen and whether the file was read
    disk,           \* TokenManager: the token file
    cache,          \* TokenManager: _tokens
    clock,          \* time.time()
    attempts        \* QBClient: the HTTP requests of the current call, with their answers

matchVars == <<imported, existing, tolerance_days, idx, matched, probable, unmatched>>

bankVars == <<file, ledger, dry_run, run, window, failed, created, posts, report, first>>

clientVars == <<disk, cache, clock, attempts>>

auxVars == <<account_id, queries, store, history, detected, disk, cache, clock, attempts>>

vars == <<pc, imported, existing, tolerance_days, idx, matched, probable, unmatched,
          file, ledger, dry_run, run, window, failed, created, posts, report, first,
          account_id, queries, store, history, detected, disk, cache, clock, attempts>>

----------------------------------------------------------------------------
(* Bounds of the model *)

MaxStmts == 2
MaxLedger == 3

SeqsUpTo(S, n) == UNION {[1..k -> S] : k \in 0..n}

Abs(x) == IF x < 0 THEN -x ELSE x

----------------------------------------------------------------------------
(* Dates *)

\* dict.get(key, default) on a key that may be absent
NoKey == "<absent>"

GetOr(v, default) == IF v = NoKey THEN default ELSE v

\* datetime.strptime(s, "%Y-%m-%d"): the day number (days since 1900-01-01) of a
\* date string, -1 where strptime raises ValueError
NoDay == -1

DayOf(s) ==
    CASE s = "1900-01-01" -> 0
      [] s = "2023-06-06" -> 45081
      [] s = "2023-06-07" -> 45082
      [] s = "2026-02-26" -> 46077
      [] s = "2026-02-27" -> 46078
      [] s = "2026-02-28" -> 46079
      [] s = "2026-03-01" -> 46080
      [] s = "2026-03-02" -> 46081
      [] s = "2026-03-03" -> 46082
      [] s = "2026-03-04" -> 46083
      [] s = "2026-03-05" -> 46084
      [] s = "2028-11-24" -> 47079
      [] s = "2028-11-25" -> 47080
      [] OTHER -> NoDay

\* d.strftime("%Y-%m-%d")
StrOf(d) ==
    CASE d = 45081 -> "2023-06-06"
      [] d = 45082 -> "2023-06-07"
      [] d = 46077 -> "2026-02-26"
      [] d = 46078 -> "2026-02-27"
      [] d = 46079 -> "2026-02-28"
      [] d = 46080 -> "2026-03-01"
      [] d = 46081 -> "2026-03-02"
      [] d = 46082 -> "2026-03-03"
      [] d = 46083 -> "2026-03-04"
      [] d = 46084 -> "2026-03-05"
      [] d = 47079 -> "2028-11-24"
      [] d = 47080 -> "2028-11-25"

\* the order of Python's str comparison on the date strings of the model
LexRank(s) ==
    CASE s = "" -> 0
      [] s = "03/01/2026" -> 1
      [] s = "1900-01-01" -> 2
      [] s = "2023-06-06" -> 3
      [] s = "2023-06-07" -> 4
      [] s = "2026-02-26" -> 5
      [] s = "2026-02-27" -> 6
      [] s = "2026-02-28" -> 7
      [] s = "2026-03-01" -> 8
      [] s = "2026-03-02" -> 9
      [] s = "2026-03-03" -> 10
      [] s = "2026-03-04" -> 11
      [] s = "2026-03-05" -> 12
      [] s = "2028-11-24" -> 13
      [] s = "2028-11-25" -> 14
      [] s = "O'Neil" -> 15

\* s[:10]
Prefix10(s) ==
    CASE s = "2026-03-02T09:15" -> "2026-03-02"
      [] OTHER -> s

\* the sentinel distance of a pair whose date does not parse
UnparseableDays == 999

\* lines 117-122: the distance in days, or the sentinel when strptime raises
DaysDiff(imp_date, ex_date) ==
    IF DayOf(Prefix10(imp_date)) = NoDay \/ DayOf(Prefix10(ex_date)) = NoDay
    THEN UnparseableDays
    ELSE Abs(DayOf(Prefix10(imp_date)) - DayOf(Prefix10(ex_date)))

----------------------------------------------------------------------------
(* Amounts *)

\* The pairs of magnitudes (in cents, smaller first) one cent apart whose binary64
\* difference is above the binary64 value of 0.01: abs(1.00 - 1.01) is
\* 0.010000000000000009.  abs(0.0 - 0.01) is exactly 0.01.
RoundsAboveCent == {<<100, 101>>}

AmountGateSigned(imp_amt, ex_amt) ==
    Abs(imp_amt - ex_amt) <= 1

AmountGateDollar(imp_amt, ex_amt) ==
    Abs(Abs(imp_amt) - Abs(ex_amt)) <= 100

\* line 113, negated: the pair is not skipped by the amount test
AmountGate(imp_amt, ex_amt) ==
    LET a == Abs(imp_amt)
        b == Abs(ex_amt)
        lo == IF a < b THEN a ELSE b
        hi == IF a < b THEN b ELSE a
    IN  hi - lo = 0 \/ (hi - lo = 1 /\ <<lo, hi>> \notin RoundsAboveCent)

----------------------------------------------------------------------------
(* The matcher *)

IdMatchAnyDay(imp, ex, days_diff) ==
    \/ (imp.fitid # "" /\ imp.fitid = GetOr(ex._fitid, ""))
    \/ (imp.check_number # "" /\ imp.check_number = GetOr(ex.DocNumber, ""))

IdMatchEmptyIds(imp, ex, days_diff) ==
    /\ days_diff = 0
    /\ \/ imp.fitid = GetOr(ex._fitid, "")
       \/ imp.check_number = GetOr(ex.DocNumber, "")

\* lines 128-131
IdMatch(imp, ex, days_diff) ==
    /\ days_diff = 0
    /\ \/ (imp.fitid # "" /\ imp.fitid = GetOr(ex._fitid, ""))
       \/ (imp.check_number # "" /\ imp.check_number = GetOr(ex.DocNumber, ""))

\* line 137: the two strptime calls outside the try block raise ValueError
BestRaises(imp, best) ==
    \/ DayOf(Prefix10(imp.date)) = NoDay
    \/ DayOf(Prefix10(GetOr(best.TxnDate, "1900-01-01"))) = NoDay

\* line 137: the distance of the best candidate so far
BestDays(imp, best) ==
    Abs(DayOf(Prefix10(imp.date)) - DayOf(Prefix10(GetOr(best.TxnDate, "1900-01-01"))))

DateGateOff(days_diff, tol) == TRUE

\* line 124, negated
DateGate(days_diff, tol) == days_diff <= tol

\* lines 105-139: the inner loop over existing[j..], with best_match (an index of
\* existing, 0 for None) and match_type so far
RECURSIVE ScanExisting(_, _, _, _, _, _)
ScanExisting(imp, ex_list, tol, j, best_match, match_type) ==
    IF j > Len(ex_list)
    THEN [best_match |-> best_match, match_type |-> match_type, raised |-> FALSE]
    ELSE LET ex == ex_list[j]
             days_diff == DaysDiff(imp.date, GetOr(ex.TxnDate, ""))
         IN  IF ~AmountGate(imp.amount, ex.TotalAmt)
             THEN ScanExisting(imp, ex_list, tol, j + 1, best_match, match_type)
             ELSE IF ~DateGate(days_diff, tol)
             THEN ScanExisting(imp, ex_list, tol, j + 1, best_match, match_type)
             ELSE IF IdMatch(imp, ex, days_diff)
             THEN [best_match |-> j, match_type |-> "exact", raised |-> FALSE]
             ELSE IF best_match = 0
             THEN ScanExisting(imp, ex_list, tol, j + 1, j, "probable")
             ELSE IF BestRaises(imp, ex_list[best_match])
             THEN [best_match |-> best_match, match_type |-> match_type, raised |-> TRUE]
             ELSE IF days_diff < BestDays(imp, ex_list[best_match])
             THEN ScanExisting(imp, ex_list, tol, j + 1, j, "probable")
             ELSE ScanExisting(imp, ex_list, tol, j + 1, best_match, match_type)

\* lines 102-139 for one statement record
MatchOne(imp, ex_list, tol) == ScanExisting(imp, ex_list, tol, 1, 0, "none")

----------------------------------------------------------------------------
(* The inputs of the matcher *)

StmtPool ==
    { [date |-> "2026-03-01", amount |-> -100, fitid |-> "",   check_number |-> "1001"],
      [date |-> "2026-03-01", amount |-> 100,  fitid |-> "F1", check_number |-> ""],
      [date |-> "2026-03-01", amount |-> 101,  fitid |-> "",   check_number |-> ""],
      [date |-> "2026-03-01", amount |-> 0,    fitid |-> "",   check_number |-> ""],
      [date |-> "",           amount |-> 100,  fitid |-> "",   check_number |-> "1001"] }

LedgerPool ==
    { [TxnDate |-> "2026-03-01", TotalAmt |-> 100, DocNumber |-> "1001", _fitid |-> "F1"],
      [TxnDate |-> "2026-03-02", TotalAmt |-> 100, DocNumber |-> "1001", _fitid |-> ""],
      [TxnDate |-> "2026-03-04", TotalAmt |-> 100, DocNumber |-> "",     _fitid |-> ""],
      [TxnDate |-> "2026-03-01", TotalAmt |-> 1,   DocNumber |-> "",     _fitid |-> ""],
      [TxnDate |-> "2026-03-01", TotalAmt |-> 0,   DocNumber |-> "",     _fitid |-> ""],
      [TxnDate |-> "",           TotalAmt |-> 100, DocNumber |-> "1001", _fitid |-> ""],
      [TxnDate |-> NoKey,        TotalAmt |-> 100, DocNumber |-> "",     _fitid |-> ""] }

\* --tolerance: 3 is the default, 999 is the sentinel distance
Tolerances == {1, 3, 999}

----------------------------------------------------------------------------
(* _match_transactions as a state machine: one step per statement record *)

MatchInit ==
    /\ pc = "loop"
    /\ imported \in SeqsUpTo(StmtPool, MaxStmts)
    /\ existing \in SeqsUpTo(LedgerPool, MaxLedger)
    /\ tolerance_days \in Tolerances
    /\ idx = 0
    /\ matched = <<>>
    /\ probable = <<>>
    /\ unmatched = <<>>
    /\ file = <<>>
    /\ ledger = <<>>
    /\ dry_run = FALSE
    /\ run = 0
    /\ window = <<>>
    /\ failed = {}
    /\ created = <<>>
    /\ posts = <<>>
    /\ report = [status |-> "none"]
    /\ first = [pc |-> "none", report |-> [status |-> "none"], failed |-> {}, created |-> <<>>]
    /\ account_id = ""
    /\ queries = <<>>
    /\ store = {}
    /\ history = <<>>
    /\ detected = [format |-> "none", read |-> FALSE]
    /\ disk = [access_token |-> 0, expires_at |-> 0]
    /\ cache = [access_token |-> 0, expires_at |-> 0]
    /\ clock = 0
    /\ attempts = <<>>

\* lines 141-142
MatchExact ==
    /\ pc = "loop"
    /\ idx < Len(imported)
    /\ LET r == MatchOne(imported[idx + 1], existing, tolerance_days)
       IN  /\ ~r.raised
           /\ r.match_type = "exact"
           /\ matched' = Append(matched, [imported |-> idx + 1, existing |-> r.best_match])
    /\ idx' = idx + 1
    /\ UNCHANGED <<pc, imported, existing, tolerance_days, probable, unmatched>>
    /\ UNCHANGED bankVars
    /\ UNCHANGED auxVars

\* lines 143-144
MatchProbable ==
    /\ pc = "loop"
    /\ idx < Len(imported)
    /\ LET r == MatchOne(imported[idx + 1], existing, tolerance_days)
       IN  /\ ~r.raised
           /\ r.match_type = "probable"
           /\ probable' = Append(probable, [imported |-> idx + 1, existing |-> r.best_match])
    /\ idx' = idx + 1
    /\ UNCHANGED <<pc, imported, existing, tolerance_days, matched, unmatched>>
    /\ UNCHANGED bankVars
    /\ UNCHANGED auxVars

MatchNoneDrop ==
    /\ pc = "loop"
    /\ idx < Len(imported)
    /\ LET r == MatchOne(imported[idx + 1], existing, tolerance_days)
       IN  /\ ~r.raised
           /\ r.match_type = "none"
    /\ idx' = idx + 1
    /\ UNCHANGED <<pc, imported, existing, tolerance_days, matched, probable, unmatched>>
    /\ UNCHANGED bankVars
    /\ UNCHANGED auxVars

\* lines 145-146
MatchNone ==
    /\ pc = "loop"
    /\ idx < Len(imported)
    /\ LET r == MatchOne(imported[idx + 1], existing, tolerance_days)
       IN  /\ ~r.raised
           /\ r.match_type = "none"
           /\ unmatched' = Append(unmatched, idx + 1)
    /\ idx' = idx + 1
    /\ UNCHANGED <<pc, imported, existing, tolerance_days, matched, probable>>
    /\ UNCHANGED bankVars
    /\ UNCHANGED auxVars

\* line 137: ValueError leaves _match_transactions
MatchRaise ==
    /\ pc = "loop"
    /\ idx < Len(imported)
    /\ MatchOne(imported[idx + 1], existing, tolerance_days).raised
    /\ pc' = "raised"
    /\ UNCHANGED <<imported, existing, tolerance_days, idx, matched, probable, unmatched>>
    /\ UNCHANGED bankVars
    /\ UNCHANGED auxVars

\* line 148
MatchReturn ==
    /\ pc = "loop"
    /\ idx = Len(imported)
    /\ pc' = "returned"
    /\ UNCHANGED <<imported, existing, tolerance_days, idx, matched, probable, unmatched>>
    /\ UNCHANGED bankVars
    /\ UNCHANGED auxVars

MatchNext == MatchExact \/ MatchProbable \/ MatchNone \/ MatchRaise \/ MatchReturn

SpecMatch == MatchInit /\ [][MatchNext]_vars

----------------------------------------------------------------------------
(* Properties of the matcher *)

\* the Exact and Probable outcomes of the run so far, in bucket order
Paired == matched \o probable

\* how many outcomes statement record i has
OutcomesOf(i) ==
    Cardinality({k \in DOMAIN matched : matched[k].imported = i})
    + Cardinality({k \in DOMAIN probable : probable[k].imported = i})
    + Cardinality({k \in DOMAIN unmatched : unmatched[k] = i})

\* the ledger records that pass the amount test and the date test for statement i
GatePassing(i) ==
    {j \in DOMAIN existing :
        /\ AmountGate(imported[i].amount, existing[j].TotalAmt)
        /\ DaysDiff(imported[i].date, GetOr(existing[j].TxnDate, "")) <= tolerance_days}

\* the ledger records that qualify as Exact for statement i
ExactQualifying(i) ==
    {j \in DOMAIN existing :
        /\ AmountGate(imported[i].amount, existing[j].TotalAmt)
        /\ DaysDiff(imported[i].date, GetOr(existing[j].TxnDate, "")) = 0
        /\ \/ (imported[i].fitid # ""
                  /\ imported[i].fitid = GetOr(existing[j]._fitid, ""))
           \/ (imported[i].check_number # ""
                  /\ imported[i].check_number = GetOr(existing[j].DocNumber, ""))}

MinOf(S) == CHOOSE x \in S : \A y \in S : x <= y

\* the earliest among the gate-passing records of smallest date distance
ClosestFirst(i) ==
    MinOf({j \in GatePassing(i) :
            \A k \in GatePassing(i) :
                DaysDiff(imported[i].date, GetOr(existing[j].TxnDate, ""))
                  <= DaysDiff(imported[i].date, GetOr(existing[k].TxnDate, ""))})

\* C1: no ledger record is the ledger side of more than one Exact/Probable
\* outcome of a run.
C1_ClaimUniqueness ==
    \A k1, k2 \in DOMAIN Paired :
        k1 # k2 => Paired[k1].existing # Paired[k2].existing

C3_AmountGate ==
    /\ \A k \in DOMAIN Paired :
          Abs(Abs(imported[Paired[k].imported].amount)
              - Abs(existing[Paired[k].existing].TotalAmt)) <= 1
    /\ \A i \in DOMAIN imported : \A j \in DOMAIN existing :
          LET a == imported[i].amount
              b == existing[j].TotalAmt
          IN  /\ AmountGate(-a, b) = AmountGate(a, b)
              /\ AmountGate(a, -b) = AmountGate(a, b)

C3_Witness ==
    \E k \in DOMAIN matched :
        /\ imported[matched[k].imported].amount = -100
        /\ existing[matched[k].existing].TotalAmt = 100

C5_ProbableClosestFirst ==
    \A i \in 1..idx :
        (ExactQualifying(i) = {} /\ GatePassing(i) # {}) =>
            \E k \in DOMAIN probable :
                /\ probable[k].imported = i
                /\ probable[k].existing = ClosestFirst(i)

C8_UnparseableNeverChosen ==
    \A k \in DOMAIN Paired :
        /\ DayOf(Prefix10(imported[Paired[k].imported].date)) # NoDay
        /\ DayOf(Prefix10(GetOr(existing[Paired[k].existing].TxnDate, ""))) # NoDay

----------------------------------------------------------------------------
(* _match_transactions as a function, for its callers *)

RECURSIVE MatchFrom(_, _, _, _, _)
MatchFrom(imp_list, ex_list, tol, i, acc) ==
    IF i > Len(imp_list)
    THEN acc
    ELSE LET r == MatchOne(imp_list[i], ex_list, tol)
             pair == [imported |-> i, existing |-> r.best_match]
         IN  IF r.raised
             THEN [acc EXCEPT !.raised = TRUE]
             ELSE IF r.match_type = "exact"
             THEN MatchFrom(imp_list, ex_list, tol, i + 1,
                            [acc EXCEPT !.matched = Append(@, pair)])
             ELSE IF r.match_type = "probable"
             THEN MatchFrom(imp_list, ex_list, tol, i + 1,
                            [acc EXCEPT !.probable = Append(@, pair)])
             ELSE MatchFrom(imp_list, ex_list, tol, i + 1,
                            [acc EXCEPT !.unmatched = Append(@, i)])

MatchTransactions(imp_list, ex_list, tol) ==
    MatchFrom(imp_list, ex_list, tol, 1,
              [matched |-> <<>>, probable |-> <<>>, unmatched |-> <<>>, raised |-> FALSE])

----------------------------------------------------------------------------
(* The statement parsers *)

MaxRows == 2

\* the strings float() accepts; on any other it raises ValueError
IsFloat(s) == s \in {"-5.00", "5.00", "1234.56", "0"}

CleanAmountKeeps(s) == s

\* s.replace(",", "").replace("$", "")
CleanAmount(s) ==
    CASE s = "$1,234.56" -> "1234.56"
      [] OTHER -> s

\* float(s), in cents
FloatOf(s) ==
    CASE s = "-5.00" -> -500
      [] s = "5.00" -> 500
      [] s = "1234.56" -> 123456
      [] s = "0" -> 0

\* the value csv.DictReader gives a field that a short row does not reach
None == "<None>"

\* line 56: None.replace raises AttributeError, which line 57 does not catch
CsvRaises(rows) == \E k \in DOMAIN rows : rows[k].Amount = None

\* lines 54-67: the rows whose amount parses, in file order; a column the file
\* does not have reads as "0" (amount) or "" (date)
RECURSIVE ParseCsv(_)
ParseCsv(rows) ==
    IF rows = <<>>
    THEN <<>>
    ELSE LET row == Head(rows)
             text == CleanAmount(GetOr(row.Amount, "0"))
         IN  IF ~IsFloat(text)
             THEN ParseCsv(Tail(rows))
             ELSE <<[date |-> GetOr(row.Date, ""), amount |-> FloatOf(text),
                     fitid |-> "", check_number |-> ""]>> \o ParseCsv(Tail(rows))

\* lines 36-45: a transaction without a date gets the empty string
ParseOfx(txns) ==
    [k \in DOMAIN txns |->
        [date |-> IF txns[k].date = NoDay THEN "" ELSE StrOf(txns[k].date),
         amount |-> txns[k].amount,
         fitid |-> txns[k].id,
         check_number |-> txns[k].checknum]]

\* lines 213-217
ParseFile(f) == IF f.format = "ofx" THEN ParseOfx(f.rows) ELSE ParseCsv(f.rows)

CsvRowPool ==
    { [Date |-> "2026-03-01",       Amount |-> "-5.00"],
      [Date |-> "03/01/2026",       Amount |-> "5.00"],
      [Date |-> "",                 Amount |-> "$1,234.56"],
      [Date |-> "2026-03-02T09:15", Amount |-> "0"],
      [Date |-> "2026-03-01",       Amount |-> "N/A"] }

OfxTxnPool ==
    { [date |-> 46080, amount |-> -500, id |-> "F1", checknum |-> "1001"],
      [date |-> NoDay, amount |-> 500,  id |-> "F2", checknum |-> ""] }

Files ==
    {[format |-> "csv", rows |-> r] : r \in SeqsUpTo(CsvRowPool, MaxRows)}
    \cup {[format |-> "ofx", rows |-> r] : r \in SeqsUpTo(OfxTxnPool, MaxRows)}

----------------------------------------------------------------------------
(* The ledger behind client.query and client.post *)

MaxInitDocs == 1
MaxQueryFailures == 1

\* max_results of the window queries
MaxResults == 500

BankEntities == <<"Purchase", "Deposit", "Transfer", "JournalEntry">>

DocPool ==
    { [entity |-> "Purchase", TxnDate |-> "2026-03-02", TotalAmt |-> 500,
       DocNumber |-> "1001", _fitid |-> NoKey],
      [entity |-> "Deposit",  TxnDate |-> "2026-03-01", TotalAmt |-> 500,
       DocNumber |-> NoKey, _fitid |-> NoKey],
      [entity |-> "Transfer", TxnDate |-> "2026-03-04", TotalAmt |-> 0,
       DocNumber |-> NoKey, _fitid |-> NoKey] }

\* the ledger gives every document an Id
WithIds(docs) ==
    [k \in DOMAIN docs |->
        [entity |-> docs[k].entity, Id |-> k, TxnDate |-> docs[k].TxnDate,
         TotalAmt |-> docs[k].TotalAmt, DocNumber |-> docs[k].DocNumber,
         _fitid |-> docs[k]._fitid]]

InitialLedgers == {WithIds(d) : d \in SeqsUpTo(DocPool, MaxInitDocs)}

\* TxnDate >= 'start' AND TxnDate <= 'end' as the ledger answers it: by day where
\* all three dates parse; a document whose posted date does not parse, or a window
\* that does not parse, is returned
InWindow(txn_date, start, end) ==
    IF DayOf(txn_date) = NoDay \/ DayOf(start) = NoDay \/ DayOf(end) = NoDay
    THEN TRUE
    ELSE DayOf(start) <= DayOf(txn_date) /\ DayOf(txn_date) <= DayOf(end)

\* the QueryResponse of one window query
QueryResponse(docs, entity, start, end) ==
    LET hits == SelectSeq(docs, LAMBDA d : d.entity = entity
                                           /\ InWindow(d.TxnDate, start, end))
    IN  IF Len(hits) > MaxResults THEN SubSeq(hits, 1, MaxResults) ELSE hits

\* value.replace("'", "''")
EscapeQueryValue(s) ==
    CASE s = "O'Neil" -> "O''Neil"
      [] OTHER -> s

----------------------------------------------------------------------------
(* import bank *)

BankTolerances == {3, 999}

\* the values of --account-id
Accounts == {"35", "35_1"}

\* nothing printed yet
NoReport == [status |-> "none"]

\* no earlier run
NoRun == [pc |-> "none", report |-> NoReport, failed |-> {}, created |-> <<>>]

\* line 224
DatesOf(txns) ==
    LET dated == SelectSeq(txns, LAMBDA t : t.date # "")
    IN  [k \in DOMAIN dated |-> Prefix10(dated[k].date)]

LexMin(dates) ==
    CHOOSE s \in {dates[k] : k \in DOMAIN dates} :
        \A k \in DOMAIN dates : LexRank(s) <= LexRank(dates[k])

LexMax(dates) ==
    CHOOSE s \in {dates[k] : k \in DOMAIN dates} :
        \A k \in DOMAIN dates : LexRank(s) >= LexRank(dates[k])

\* lines 225-233
WindowOf(dates, tol) ==
    LET min_date == LexMin(dates)
        max_date == LexMax(dates)
    IN  IF DayOf(min_date) = NoDay \/ DayOf(max_date) = NoDay
        THEN [start |-> min_date, end |-> max_date]
        ELSE [start |-> StrOf(DayOf(min_date) - tol),
              end |-> StrOf(DayOf(max_date) + tol)]

\* lines 240-248: the answers of the types that did not fail, in type order
RECURSIVE Collect(_, _, _, _)
Collect(docs, w, down, k) ==
    IF k > Len(BankEntities)
    THEN <<>>
    ELSE (IF BankEntities[k] \in down
          THEN <<>>
          ELSE QueryResponse(docs, BankEntities[k],
                             EscapeQueryValue(w.start), EscapeQueryValue(w.end)))
         \o Collect(docs, w, down, k + 1)

\* lines 241-244: one query per type, with the escaped window
QueriesOf(w) ==
    [k \in DOMAIN BankEntities |->
        [entity |-> BankEntities[k], start |-> EscapeQueryValue(w.start),
         end |-> EscapeQueryValue(w.end), max_results |-> MaxResults]]

BodyOfNonPositive(txn) ==
    IF txn.amount <= 0
    THEN [entity |-> "Purchase", account |-> account_id,
          TxnDate |-> Prefix10(txn.date), TotalAmt |-> Abs(txn.amount),
          DocNumber |-> IF txn.check_number # "" THEN txn.check_number ELSE NoKey,
          _fitid |-> NoKey]
    ELSE [entity |-> "Deposit", account |-> account_id,
          TxnDate |-> Prefix10(txn.date),
          TotalAmt |-> txn.amount, DocNumber |-> NoKey, _fitid |-> NoKey]

\* lines 258-292: the document a create call posts for a statement record;
\* account is AccountRef of a Purchase, DepositToAccountRef of a Deposit
BodyOf(txn) ==
    IF txn.amount < 0
    THEN [entity |-> "Purchase", account |-> account_id,
          TxnDate |-> Prefix10(txn.date), TotalAmt |-> Abs(txn.amount),
          DocNumber |-> IF txn.check_number # "" THEN txn.check_number ELSE NoKey,
          _fitid |-> NoKey]
    ELSE [entity |-> "Deposit", account |-> account_id,
          TxnDate |-> Prefix10(txn.date),
          TotalAmt |-> txn.amount, DocNumber |-> NoKey, _fitid |-> NoKey]

\* lines 296-311
ReportOf ==
    [status |-> "ok",
     format |-> file.format,
     total_imported |-> Len(imported),
     matched |-> Len(matched),
     probable_matches |-> Len(probable),
     unmatched |-> Len(unmatched),
     created |-> IF dry_run THEN 0 ELSE Len(created),
     dry_run |-> dry_run,
     details |->
        [matched |-> [k \in DOMAIN matched |->
                        [imported |-> imported[matched[k].imported],
                         qb_id |-> existing[matched[k].existing].Id]],
         probable |-> [k \in DOMAIN probable |->
                        [imported |-> imported[probable[k].imported],
                         qb_id |-> existing[probable[k].existing].Id]],
         unmatched |-> [k \in DOMAIN unmatched |-> imported[unmatched[k]]],
         created |-> IF dry_run THEN <<>> ELSE created]]

BankInit ==
    /\ pc = "parse"
    /\ file \in Files
    /\ ledger \in InitialLedgers
    /\ dry_run \in BOOLEAN
    /\ tolerance_days \in BankTolerances
    /\ run = 1
    /\ imported = <<>>
    /\ existing = <<>>
    /\ idx = 0
    /\ matched = <<>>
    /\ probable = <<>>
    /\ unmatched = <<>>
    /\ window = <<>>
    /\ failed = {}
    /\ created = <<>>
    /\ posts = <<>>
    /\ report = NoReport
    /\ first = NoRun
    /\ account_id \in Accounts
    /\ queries = <<>>
    /\ store = {}
    /\ history = <<>>
    /\ detected = [format |-> "none", read |-> FALSE]
    /\ disk = [access_token |-> 0, expires_at |-> 0]
    /\ cache = [access_token |-> 0, expires_at |-> 0]
    /\ clock = 0
    /\ attempts = <<>>

\* lines 213-217 with records in the file
BankParse ==
    /\ pc = "parse"
    /\ ParseFile(file) # <<>>
    /\ imported' = ParseFile(file)
    /\ pc' = "window"
    /\ UNCHANGED <<existing, tolerance_days, idx, matched, probable, unmatched>>
    /\ UNCHANGED bankVars
    /\ UNCHANGED auxVars

BankEmptyGoesOn ==
    /\ pc = "parse"
    /\ ParseFile(file) = <<>>
    /\ report' = report
    /\ pc' = "window"
    /\ UNCHANGED matchVars
    /\ UNCHANGED <<file, ledger, dry_run, run, window, failed, created, posts, first>>
    /\ UNCHANGED auxVars

\* lines 219-221
BankEmpty ==
    /\ pc = "parse"
    /\ ParseFile(file) = <<>>
    /\ report' = [status |-> "empty"]
    /\ pc' = "done"
    /\ UNCHANGED matchVars
    /\ UNCHANGED <<file, ledger, dry_run, run, window, failed, created, posts, first>>
    /\ UNCHANGED auxVars

\* lines 224-233
BankWindow ==
    /\ pc = "window"
    /\ DatesOf(imported) # <<>>
    /\ window' = WindowOf(DatesOf(imported), tolerance_days)
    /\ pc' = "query"
    /\ UNCHANGED matchVars
    /\ UNCHANGED <<file, ledger, dry_run, run, failed, created, posts, report, first>>
    /\ UNCHANGED auxVars

\* line 225: min() of an empty list raises ValueError
BankWindowRaise ==
    /\ pc = "window"
    /\ DatesOf(imported) = <<>>
    /\ pc' = "crashed"
    /\ UNCHANGED matchVars
    /\ UNCHANGED bankVars
    /\ UNCHANGED auxVars

\* lines 238-248: each type is queried; the types in down raise and are skipped
BankQuery ==
    /\ pc = "query"
    /\ \E down \in SUBSET {BankEntities[k] : k \in DOMAIN BankEntities} :
          /\ Cardinality(down) <= MaxQueryFailures
          /\ failed' = down
          /\ existing' = Collect(ledger, window, down, 1)
    /\ queries' = QueriesOf(window)
    /\ pc' = "match"
    /\ UNCHANGED <<imported, tolerance_days, idx, matched, probable, unmatched>>
    /\ UNCHANGED <<file, ledger, dry_run, run, window, created, posts, report, first>>
    /\ UNCHANGED <<account_id, store, history, detected>>
    /\ UNCHANGED clientVars

\* line 251
BankMatch ==
    /\ pc = "match"
    /\ LET r == MatchTransactions(imported, existing, tolerance_days)
       IN  /\ ~r.raised
           /\ matched' = r.matched
           /\ probable' = r.probable
           /\ unmatched' = r.unmatched
    /\ pc' = "create"
    /\ UNCHANGED <<imported, existing, tolerance_days, idx>>
    /\ UNCHANGED bankVars
    /\ UNCHANGED auxVars

\* line 251: the ValueError of line 137 leaves the command
BankMatchRaise ==
    /\ pc = "match"
    /\ MatchTransactions(imported, existing, tolerance_days).raised
    /\ pc' = "crashed"
    /\ UNCHANGED matchVars
    /\ UNCHANGED bankVars
    /\ UNCHANGED auxVars

BankCreateOkAlways ==
    /\ pc = "create"
    /\ Len(created) < Len(unmatched)
    /\ LET i == unmatched[Len(created) + 1]
           body == BodyOf(imported[i])
           id == Len(ledger) + 1
       IN  /\ posts' = Append(posts, [run |-> run, body |-> body, ok |-> TRUE])
           /\ ledger' = Append(ledger, [entity |-> body.entity, Id |-> id,
                                        TxnDate |-> body.TxnDate,
                                        TotalAmt |-> body.TotalAmt,
                                        DocNumber |-> body.DocNumber,
                                        _fitid |-> NoKey])
           /\ created' = Append(created, [txn |-> imported[i],
                                          qb_entity |-> body.entity, qb_id |-> id])
    /\ UNCHANGED pc
    /\ UNCHANGED matchVars
    /\ UNCHANGED <<file, dry_run, run, window, failed, report, first>>
    /\ UNCHANGED auxVars

\* lines 255-292: the create call for the next unmatched record succeeds
BankCreateOk ==
    /\ pc = "create"
    /\ ~dry_run
    /\ Len(created) < Len(unmatched)
    /\ LET i == unmatched[Len(created) + 1]
           body == BodyOf(imported[i])
           id == Len(ledger) + 1
       IN  /\ posts' = Append(posts, [run |-> run, body |-> body, ok |-> TRUE])
           /\ ledger' = Append(ledger, [entity |-> body.entity, Id |-> id,
                                        TxnDate |-> body.TxnDate,
                                        TotalAmt |-> body.TotalAmt,
                                        DocNumber |-> body.DocNumber,
                                        _fitid |-> NoKey])
           /\ created' = Append(created, [txn |-> imported[i],
                                          qb_entity |-> body.entity, qb_id |-> id])
    /\ UNCHANGED pc
    /\ UNCHANGED matchVars
    /\ UNCHANGED <<file, dry_run, run, window, failed, report, first>>
    /\ UNCHANGED auxVars

BankCreateFailAborts ==
    /\ pc = "create"
    /\ ~dry_run
    /\ Len(created) < Len(unmatched)
    /\ LET i == unmatched[Len(created) + 1]
       IN  /\ posts' = Append(posts, [run |-> run, body |-> BodyOf(imported[i]), ok |-> FALSE])
           /\ created' = created
    /\ pc' = "crashed"
    /\ UNCHANGED matchVars
    /\ UNCHANGED <<file, ledger, dry_run, run, window, failed, report, first>>
    /\ UNCHANGED auxVars

\* lines 293-294: the create call for the next unmatched record raises
BankCreateFail ==
    /\ pc = "create"
    /\ ~dry_run
    /\ Len(created) < Len(unmatched)
    /\ LET i == unmatched[Len(created) + 1]
       IN  /\ posts' = Append(posts, [run |-> run, body |-> BodyOf(imported[i]), ok |-> FALSE])
           /\ created' = Append(created, [txn |-> imported[i], error |-> "error"])
    /\ UNCHANGED pc
    /\ UNCHANGED matchVars
    /\ UNCHANGED <<file, ledger, dry_run, run, window, failed, report, first>>
    /\ UNCHANGED auxVars

\* lines 296-313
BankReport ==
    /\ pc = "create"
    /\ dry_run \/ Len(created) = Len(unmatched)
    /\ report' = ReportOf
    /\ pc' = "done"
    /\ UNCHANGED matchVars
    /\ UNCHANGED <<file, ledger, dry_run, run, window, failed, created, posts, first>>
    /\ UNCHANGED auxVars

\* the same command is run a second time on the same file
BankRerun ==
    /\ pc \in {"done", "crashed"}
    /\ run = 1
    /\ first' = [pc |-> pc, report |-> report, failed |-> failed, created |-> created]
    /\ run' = 2
    /\ pc' = "parse"
    /\ imported' = <<>>
    /\ existing' = <<>>
    /\ matched' = <<>>
    /\ probable' = <<>>
    /\ unmatched' = <<>>
    /\ window' = <<>>
    /\ failed' = {}
    /\ created' = <<>>
    /\ report' = NoReport
    /\ queries' = <<>>
    /\ UNCHANGED <<tolerance_days, idx, file, ledger, dry_run, posts>>
    /\ UNCHANGED <<account_id, store, history, detected>>
    /\ UNCHANGED clientVars

BankNext ==
    \/ BankParse \/ BankEmpty \/ BankWindow \/ BankWindowRaise \/ BankQuery
    \/ BankMatch \/ BankMatchRaise \/ BankCreateOk \/ BankCreateFail
    \/ BankReport \/ BankRerun

SpecImport == BankInit /\ [][BankNext]_vars

----------------------------------------------------------------------------
(* reconcile start / status / match *)

MaxStarts == 2

\* max_results of the queries of start
StartMaxResults == 1000

\* the length of recent_transactions
RecentLimit == 20

StartEntities ==
    <<"Purchase", "Deposit", "Transfer", "Payment", "SalesReceipt", "BillPayment">>

MatchEntities ==
    <<"Purchase", "Deposit", "Transfer", "Payment", "SalesReceipt", "JournalEntry">>

\* the values of --statement-date
StatementDates == {"2026-02-28", "2026-03-04"}

\* balances, in thousandths of the currency unit
StatementBalances == {1000000, 999990, 1000004}

\* the balance the ledger holds for each account, in thousandths (line 45)
CurrentBalance(acct) ==
    CASE acct = "35" -> 1000000
      [] acct = "35_1" -> 999990

\* the document types whose query may raise
Failable == {"Deposit", "Payment"}

\* what the ledger holds; an Id is unique within its document type
ReconLedgers ==
    { << [entity |-> "Purchase", Id |-> 1, TxnDate |-> "2026-03-01", TotalAmt |-> 500,
          DocNumber |-> "1001", _fitid |-> NoKey],
         [entity |-> "Deposit", Id |-> 1, TxnDate |-> "2026-03-01", TotalAmt |-> 500,
          DocNumber |-> NoKey, _fitid |-> NoKey],
         [entity |-> "Payment", Id |-> 2, TxnDate |-> "2026-03-01", TotalAmt |-> 123456,
          DocNumber |-> NoKey, _fitid |-> NoKey],
         [entity |-> "BillPayment", Id |-> 3, TxnDate |-> "2026-02-27", TotalAmt |-> 0,
          DocNumber |-> NoKey, _fitid |-> NoKey],
         [entity |-> "JournalEntry", Id |-> 4, TxnDate |-> "2026-03-01", TotalAmt |-> 500,
          DocNumber |-> NoKey, _fitid |-> NoKey] >> }

\* the statement files given to match
ReconFiles ==
    { [format |-> "csv", rows |-> <<[Date |-> "2026-03-01", Amount |-> "-5.00"]>>],
      [format |-> "csv", rows |-> <<[Date |-> "2026-03-01", Amount |-> "N/A"]>>],
      [format |-> "csv", rows |-> <<[Date |-> "", Amount |-> "$1,234.56"]>>],
      [format |-> "csv", rows |-> <<[Date |-> "O'Neil", Amount |-> "-5.00"]>>],
      [format |-> "ofx", rows |-> <<[date |-> NoDay, amount |-> 500, id |-> "F2",
                                     checknum |-> ""],
                                    [date |-> 46080, amount |-> -500, id |-> "F1",
                                     checknum |-> "1001"]>>] }

NoFileArg == [format |-> "csv", rows |-> <<>>]

\* f"reconcile_{account_id}_{statement_date}.json"
SessionFile(acct, date) ==
    CASE acct = "35"   /\ date = "2026-02-28" -> "reconcile_35_2026-02-28.json"
      [] acct = "35"   /\ date = "2026-03-04" -> "reconcile_35_2026-03-04.json"
      [] acct = "35_1" /\ date = "2026-02-28" -> "reconcile_35_1_2026-02-28.json"
      [] acct = "35_1" /\ date = "2026-03-04" -> "reconcile_35_1_2026-03-04.json"

\* the names matched by glob(f"reconcile_{account_id}_*.json")
GlobMatches(acct, name) ==
    CASE acct = "35"   -> name \in {"reconcile_35_2026-02-28.json",
                                    "reconcile_35_2026-03-04.json",
                                    "reconcile_35_1_2026-02-28.json",
                                    "reconcile_35_1_2026-03-04.json"}
      [] acct = "35_1" -> name \in {"reconcile_35_1_2026-02-28.json",
                                    "reconcile_35_1_2026-03-04.json"}

\* the order of sorted() on the paths
NameRank(name) ==
    CASE name = "reconcile_35_1_2026-02-28.json" -> 1
      [] name = "reconcile_35_1_2026-03-04.json" -> 2
      [] name = "reconcile_35_2026-02-28.json" -> 3
      [] name = "reconcile_35_2026-03-04.json" -> 4

\* round(x, 2) of a value in thousandths, in cents (no value of the model is a tie)
Round2(x) == IF x >= 0 THEN (x + 5) \div 10 ELSE -((5 - x) \div 10)

BalancedUpToCent(difference) == Abs(difference) <= 1

\* line 76: abs(difference) < 0.01, difference in cents
Balanced(difference) == Abs(difference) < 1

\* TxnDate <= 'end' as the ledger answers it
UpTo(txn_date, end) ==
    IF DayOf(txn_date) = NoDay \/ DayOf(end) = NoDay
    THEN TRUE
    ELSE DayOf(txn_date) <= DayOf(end)

\* the QueryResponse of one query of start (lo = NoKey) or of match
ReconResponse(docs, entity, lo, hi, cap) ==
    LET hits == SelectSeq(docs, LAMBDA d :
                    /\ d.entity = entity
                    /\ IF lo = NoKey THEN UpTo(d.TxnDate, hi)
                                     ELSE InWindow(d.TxnDate, lo, hi))
    IN  IF Len(hits) > cap THEN SubSeq(hits, 1, cap) ELSE hits

RECURSIVE ReconCollectUntilFailure(_, _, _, _, _, _, _)
ReconCollectUntilFailure(docs, entities, lo, hi, cap, down, k) ==
    IF k > Len(entities) \/ entities[k] \in down
    THEN <<>>
    ELSE ReconResponse(docs, entities[k], lo, hi, cap)
         \o ReconCollectUntilFailure(docs, entities, lo, hi, cap, down, k + 1)

\* reconcile.py lines 49-65 and 149-158: the answers of the types that did not
\* fail, in type order
RECURSIVE ReconCollect(_, _, _, _, _, _, _)
ReconCollect(docs, entities, lo, hi, cap, down, k) ==
    IF k > Len(entities)
    THEN <<>>
    ELSE (IF entities[k] \in down
          THEN <<>>
          ELSE ReconResponse(docs, entities[k], lo, hi, cap))
         \o ReconCollect(docs, entities, lo, hi, cap, down, k + 1)

\* the queries as sent: the dates are embedded as they are
ReconQueries(entities, lo, hi, cap) ==
    [k \in DOMAIN entities |->
        [entity |-> entities[k], start |-> lo, end |-> hi, max_results |-> cap]]

\* lines 55-63
Uncleared(items) ==
    [k \in DOMAIN items |->
        [type |-> items[k].entity, id |-> items[k].Id, date |-> items[k].TxnDate,
         amount |-> items[k].TotalAmt, doc_number |-> GetOr(items[k].DocNumber, "")]]

Take(seq, n) == IF Len(seq) > n THEN SubSeq(seq, 1, n) ELSE seq

\* lines 67-79; started_at is the number of the start
SessionOf(acct, date, statement_balance, qb_balance, count, now) ==
    LET difference == Round2(statement_balance - qb_balance)
    IN  [account_id |-> acct,
         statement_date |-> date,
         statement_balance |-> statement_balance,
         qb_balance |-> qb_balance,
         difference |-> difference,
         status |-> IF Balanced(difference) THEN "balanced" ELSE "unbalanced",
         transaction_count |-> count,
         started_at |-> now]

WriteFileOnly(files, name, session) == {[name |-> name, session |-> session]}

\* lines 83-85: open(session_file, "w") replaces the file of that name
WriteFile(files, name, session) ==
    {f \in files : f.name # name} \cup {[name |-> name, session |-> session]}

ReconPcs ==
    {"ready", "start_done", "start_raised", "status_done", "status_none",
     "match_done", "match_empty", "match_raised"}

ReconInit ==
    /\ pc = "ready"
    /\ ledger \in ReconLedgers
    /\ store = {}
    /\ history = <<>>
    /\ detected = [format |-> "none", read |-> FALSE]
    /\ disk = [access_token |-> 0, expires_at |-> 0]
    /\ cache = [access_token |-> 0, expires_at |-> 0]
    /\ clock = 0
    /\ attempts = <<>>
    /\ account_id = ""
    /\ queries = <<>>
    /\ failed = {}
    /\ report = NoReport
    /\ file = NoFileArg
    /\ tolerance_days = 3
    /\ imported = <<>>
    /\ existing = <<>>
    /\ idx = 0
    /\ matched = <<>>
    /\ probable = <<>>
    /\ unmatched = <<>>
    /\ dry_run = FALSE
    /\ run = 0
    /\ window = <<>>
    /\ created = <<>>
    /\ posts = <<>>
    /\ first = NoRun

\* the variables no reconcile command touches
reconFrame == <<ledger, idx, dry_run, run, window, created, posts, first,
                detected, disk, cache, clock, attempts>>

\* what a command that does not run the matcher leaves of it
NoMatching ==
    /\ file' = NoFileArg
    /\ tolerance_days' = 3
    /\ imported' = <<>>
    /\ matched' = <<>>
    /\ probable' = <<>>
    /\ unmatched' = <<>>

\* lines 39-93
ReconStart ==
    /\ pc \in ReconPcs
    /\ Len(history) < MaxStarts
    /\ \E acct \in Accounts, date \in StatementDates,
          statement_balance \in StatementBalances, down \in SUBSET Failable :
          /\ Cardinality(down) <= MaxQueryFailures
          /\ LET items == ReconCollect(ledger, StartEntities, NoKey, date,
                                       StartMaxResults, down, 1)
                 session == SessionOf(acct, date, statement_balance,
                                      CurrentBalance(acct), Len(items),
                                      Len(history) + 1)
             IN  /\ account_id' = acct
                 /\ queries' = ReconQueries(StartEntities, NoKey, date, StartMaxResults)
                 /\ failed' = down
                 /\ existing' = items
                 /\ store' = WriteFile(store, SessionFile(acct, date), session)
                 /\ history' = Append(history, session)
                 /\ report' = [status |-> "started", session |-> session,
                               session_file |-> SessionFile(acct, date),
                               recent_transactions |-> Take(Uncleared(items), RecentLimit)]
    /\ pc' = "start_done"
    /\ NoMatching
    /\ UNCHANGED reconFrame

\* line 43: the request for the account raises
ReconStartRaise ==
    /\ pc \in ReconPcs
    /\ Len(history) < MaxStarts
    /\ \E acct \in Accounts : account_id' = acct
    /\ queries' = <<>>
    /\ failed' = {}
    /\ existing' = <<>>
    /\ report' = NoReport
    /\ pc' = "start_raised"
    /\ NoMatching
    /\ UNCHANGED <<store, history>>
    /\ UNCHANGED reconFrame

\* line 105
Found(acct) == {f \in store : GlobMatches(acct, f.name)}

Oldest(found) ==
    CHOOSE f \in found : \A g \in found : NameRank(f.name) <= NameRank(g.name)

\* lines 105, 110: sessions[0] of the names sorted in reverse
Newest(found) ==
    CHOOSE f \in found : \A g \in found : NameRank(g.name) <= NameRank(f.name)

\* lines 102-113 with a session file found
ReconStatus ==
    /\ pc \in ReconPcs
    /\ \E acct \in Accounts :
          /\ Found(acct) # {}
          /\ account_id' = acct
          /\ report' = [status |-> "session", session |-> Newest(Found(acct)).session]
    /\ pc' = "status_done"
    /\ queries' = <<>>
    /\ failed' = {}
    /\ existing' = <<>>
    /\ NoMatching
    /\ UNCHANGED <<store, history>>
    /\ UNCHANGED reconFrame

\* lines 106-108: no file found; the message is printed and the command returns
ReconStatusNone ==
    /\ pc \in ReconPcs
    /\ \E acct \in Accounts :
          /\ Found(acct) = {}
          /\ account_id' = acct
    /\ report' = [status |-> "none"]
    /\ pc' = "status_none"
    /\ queries' = <<>>
    /\ failed' = {}
    /\ existing' = <<>>
    /\ NoMatching
    /\ UNCHANGED <<store, history>>
    /\ UNCHANGED reconFrame

\* lines 165-178: the returned records whose Id is not the Id of a paired record
OutstandingInQb(qb_txns, pairs) ==
    LET matched_qb_ids == {qb_txns[pairs[k].existing].Id : k \in DOMAIN pairs}
    IN  Uncleared(SelectSeq(qb_txns, LAMBDA t : t.Id \notin matched_qb_ids))

\* lines 180-200
MatchReportOf(stmt_txns, qb_txns, r) ==
    LET outstanding_in_qb == OutstandingInQb(qb_txns, r.matched \o r.probable)
    IN  [status |-> "matched",
         statement_transactions |-> Len(stmt_txns),
         qb_transactions |-> Len(qb_txns),
         matched |-> Len(r.matched),
         probable_matches |-> Len(r.probable),
         unmatched_on_statement |-> Len(r.unmatched),
         outstanding_in_qb |-> Len(outstanding_in_qb),
         details |->
            [matched |-> [k \in DOMAIN r.matched |->
                            [stmt |-> stmt_txns[r.matched[k].imported],
                             qb_id |-> qb_txns[r.matched[k].existing].Id,
                             qb_type |-> qb_txns[r.matched[k].existing].entity]],
             probable |-> [k \in DOMAIN r.probable |->
                            [stmt |-> stmt_txns[r.probable[k].imported],
                             qb_id |-> qb_txns[r.probable[k].existing].Id,
                             qb_type |-> qb_txns[r.probable[k].existing].entity]],
             unmatched_on_statement |->
                [k \in DOMAIN r.unmatched |-> stmt_txns[r.unmatched[k]]],
             outstanding_in_qb |-> outstanding_in_qb]]

\* lines 128-202 as a function of the ledger and the arguments: how the command
\* ends and what it computed on the way
MatchRun(docs, f, tol, down) ==
    LET stmt_txns == ParseFile(f)
        dates == DatesOf(stmt_txns)
        nothing == [imported |-> stmt_txns, existing |-> <<>>, queries |-> <<>>,
                    failed |-> {}, matched |-> <<>>, probable |-> <<>>,
                    unmatched |-> <<>>]
    IN  IF stmt_txns = <<>>
        THEN [end |-> "match_empty", report |-> [status |-> "empty"]] @@ nothing
        ELSE IF dates = <<>>
        THEN [end |-> "match_raised", report |-> NoReport] @@ nothing
        ELSE LET qb_txns == ReconCollect(docs, MatchEntities, LexMin(dates),
                                         LexMax(dates), MaxResults, down, 1)
                 sent == ReconQueries(MatchEntities, LexMin(dates), LexMax(dates),
                                      MaxResults)
                 r == MatchTransactions(stmt_txns, qb_txns, tol)
             IN  IF r.raised
                 THEN [end |-> "match_raised", report |-> NoReport,
                       imported |-> stmt_txns, existing |-> qb_txns, queries |-> sent,
                       failed |-> down, matched |-> <<>>, probable |-> <<>>,
                       unmatched |-> <<>>]
                 ELSE [end |-> "match_done",
                       report |-> MatchReportOf(stmt_txns, qb_txns, r),
                       imported |-> stmt_txns, existing |-> qb_txns, queries |-> sent,
                       failed |-> down, matched |-> r.matched, probable |-> r.probable,
                       unmatched |-> r.unmatched]

\* every way match can run: the ledger, the arguments, the failing types, the end
MatchOutcomes ==
    { [docs |-> docs, file |-> f, tolerance |-> tol, run |-> MatchRun(docs, f, tol, down)] :
        docs \in ReconLedgers, f \in ReconFiles, tol \in BankTolerances,
        down \in {d \in SUBSET Failable : Cardinality(d) <= MaxQueryFailures} }

\* match runs on the ledger as it is and ends as 'end' says
MatchEnds(end) ==
    \E o \in MatchOutcomes, acct \in Accounts :
        /\ o.docs = ledger
        /\ o.run.end = end
        /\ pc' = end
        /\ account_id' = acct
        /\ file' = o.file
        /\ tolerance_days' = o.tolerance
        /\ imported' = o.run.imported
        /\ existing' = o.run.existing
        /\ queries' = o.run.queries
        /\ failed' = o.run.failed
        /\ matched' = o.run.matched
        /\ probable' = o.run.probable
        /\ unmatched' = o.run.unmatched
        /\ report' = o.run.report
        /\ UNCHANGED <<store, history>>
        /\ UNCHANGED reconFrame

\* lines 139-141
ReconMatchEmpty == pc \in ReconPcs /\ MatchEnds("match_empty")

\* line 145 (min() of an empty list) or line 162 (the ValueError of the matcher)
ReconMatchRaise == pc \in ReconPcs /\ MatchEnds("match_raised")

\* lines 128-202
ReconMatch == pc \in ReconPcs /\ MatchEnds("match_done")

ReconNext ==
    \/ ReconStart \/ ReconStartRaise \/ ReconStatus \/ ReconStatusNone
    \/ ReconMatchEmpty \/ ReconMatchRaise \/ ReconMatch

SpecReconcile == ReconInit /\ [][ReconNext]_vars

----------------------------------------------------------------------------
(* The three commands that query the ledger by document type *)

CommandsInit == BankInit \/ ReconInit

CommandsNext == BankNext \/ ReconNext

SpecCommands == CommandsInit /\ [][CommandsNext]_vars

----------------------------------------------------------------------------
(* _detect_format and the parsers on their own *)

\* the suffixes of the path, as written
Extensions == {".ofx", ".QFX", ".qbo", ".csv", ".txt", ""}

\* ext.lower()
Lower(ext) ==
    CASE ext = ".QFX" -> ".qfx"
      [] OTHER -> ext

\* what the first 500 bytes of the file hold
Heads == {"OFXHEADER", "<OFX", "plain"}

\* the values of --format
Hints == {"auto", "ofx", "csv"}

\* rows of files that a short line or a missing column makes irregular
IrregularRowPool ==
    { [Date |-> "2026-03-01", Amount |-> None],
      [Date |-> "2026-03-01", Amount |-> NoKey],
      [Date |-> NoKey,        Amount |-> "5.00"] }

\* a column is missing from every row of a file or from none
SameColumns(rows) ==
    /\ \A k, l \in DOMAIN rows : (rows[k].Amount = NoKey) <=> (rows[l].Amount = NoKey)
    /\ \A k, l \in DOMAIN rows : (rows[k].Date = NoKey) <=> (rows[l].Date = NoKey)

ParseInputs ==
    {[ext |-> e, head |-> h, hint |-> t, format |-> "csv", rows |-> r] :
        e \in Extensions, h \in Heads, t \in Hints,
        r \in {q \in SeqsUpTo(CsvRowPool \cup IrregularRowPool, MaxRows) : SameColumns(q)}}
    \cup
    {[ext |-> e, head |-> h, hint |-> t, format |-> "ofx", rows |-> r] :
        e \in Extensions, h \in Heads, t \in Hints, r \in SeqsUpTo(OfxTxnPool, MaxRows)}

ParseInit ==
    /\ pc = "detect"
    /\ file \in ParseInputs
    /\ detected = [format |-> "none", read |-> FALSE]
    /\ imported = <<>>
    /\ existing = <<>>
    /\ tolerance_days = 3
    /\ idx = 0
    /\ matched = <<>>
    /\ probable = <<>>
    /\ unmatched = <<>>
    /\ ledger = <<>>
    /\ dry_run = FALSE
    /\ run = 0
    /\ window = <<>>
    /\ failed = {}
    /\ created = <<>>
    /\ posts = <<>>
    /\ report = NoReport
    /\ first = NoRun
    /\ account_id = ""
    /\ queries = <<>>
    /\ store = {}
    /\ history = <<>>
    /\ disk = [access_token |-> 0, expires_at |-> 0]
    /\ cache = [access_token |-> 0, expires_at |-> 0]
    /\ clock = 0
    /\ attempts = <<>>

\* what the detection and the parsers leave alone
parseFrame ==
    <<existing, tolerance_days, idx, matched, probable, unmatched, ledger, dry_run, run,
      window, failed, created, posts, report, first, account_id, queries, store, history,
      disk, cache, clock, attempts, file>>

\* import_cmd.py line 213: a hint other than "auto" is taken as it is
DetectHint ==
    /\ pc = "detect"
    /\ file.hint # "auto"
    /\ detected' = [format |-> file.hint, read |-> FALSE]
    /\ pc' = "parse"
    /\ UNCHANGED imported
    /\ UNCHANGED parseFrame

\* lines 73-78: the suffix decides
DetectExtension ==
    /\ pc = "detect"
    /\ file.hint = "auto"
    /\ Lower(file.ext) \in {".ofx", ".qfx", ".qbo", ".csv"}
    /\ detected' = [format |-> IF Lower(file.ext) = ".csv" THEN "csv" ELSE "ofx",
                    read |-> FALSE]
    /\ pc' = "parse"
    /\ UNCHANGED imported
    /\ UNCHANGED parseFrame

\* lines 79-84: the first bytes decide
DetectContent ==
    /\ pc = "detect"
    /\ file.hint = "auto"
    /\ Lower(file.ext) \notin {".ofx", ".qfx", ".qbo", ".csv"}
    /\ detected' = [format |-> IF file.head \in {"<OFX", "OFXHEADER"} THEN "ofx" ELSE "csv",
                    read |-> TRUE]
    /\ pc' = "parse"
    /\ UNCHANGED imported
    /\ UNCHANGED parseFrame

\* lines 214-217: the chosen backend parses a file of its own kind
ParseRows ==
    /\ pc = "parse"
    /\ detected.format = file.format
    /\ ~(file.format = "csv" /\ CsvRaises(file.rows))
    /\ imported' = ParseFile(file)
    /\ pc' = "parsed"
    /\ UNCHANGED detected
    /\ UNCHANGED parseFrame

\* line 56: a short row ends _parse_csv in AttributeError
ParseRowsRaise ==
    /\ pc = "parse"
    /\ detected.format = file.format
    /\ file.format = "csv"
    /\ CsvRaises(file.rows)
    /\ pc' = "parse_raised"
    /\ UNCHANGED <<imported, detected>>
    /\ UNCHANGED parseFrame

\* the chosen backend is given a file of the other kind; what it makes of it is
\* not followed further
ParseMisrouted ==
    /\ pc = "parse"
    /\ detected.format # file.format
    /\ pc' = "misrouted"
    /\ UNCHANGED <<imported, detected>>
    /\ UNCHANGED parseFrame

ParseNext ==
    \/ DetectHint \/ DetectExtension \/ DetectContent
    \/ ParseRows \/ ParseRowsRaise \/ ParseMisrouted

SpecParse == ParseInit /\ [][ParseNext]_vars

----------------------------------------------------------------------------
(* QBClient._request and the token manager *)

\* tokens.py line 14
REFRESH_BUFFER_SECONDS == 300

\* tokens.py line 44: the lifetime of an access token when the response names none
ExpiresIn == 3600

\* how many access tokens are issued at most
MaxTokens == 3

\* self._tokens = None
NoTokens == [access_token |-> 0, expires_at |-> 0]

\* time.time() when the request starts; the stored token expires at ExpiresIn
ClockStarts == {0, 3270, 3299, 3300, 3600}

\* the seconds one HTTP exchange takes, at most the timeout of 30
Elapsed == {0, 30}

\* the status codes the ledger answers with
Statuses == {200, 401, 500}

ClientInit ==
    /\ pc = "request"
    /\ disk = [access_token |-> 1, expires_at |-> ExpiresIn]
    /\ cache \in {NoTokens, [access_token |-> 1, expires_at |-> ExpiresIn]}
    /\ clock \in ClockStarts
    /\ attempts = <<>>
    /\ detected = [format |-> "none", read |-> FALSE]
    /\ file = NoFileArg
    /\ imported = <<>>
    /\ existing = <<>>
    /\ tolerance_days = 3
    /\ idx = 0
    /\ matched = <<>>
    /\ probable = <<>>
    /\ unmatched = <<>>
    /\ ledger = <<>>
    /\ dry_run = FALSE
    /\ run = 0
    /\ window = <<>>
    /\ failed = {}
    /\ created = <<>>
    /\ posts = <<>>
    /\ report = NoReport
    /\ first = NoRun
    /\ account_id = ""
    /\ queries = <<>>
    /\ store = {}
    /\ history = <<>>

\* what the client leaves alone
clientFrame ==
    <<imported, existing, tolerance_days, idx, matched, probable, unmatched, file, ledger,
      dry_run, run, window, failed, created, posts, report, first, account_id, queries,
      store, history, detected>>

\* load_tokens: the copy in memory if there is one, the file otherwise
LoadTokens == IF cache # NoTokens THEN cache ELSE disk

\* get_access_token line 71
NeedsRefresh(tokens) == clock >= tokens.expires_at - REFRESH_BUFFER_SECONDS

\* the access token a refresh hands out: one never seen before
NextToken ==
    (IF disk.access_token > cache.access_token THEN disk.access_token
                                                ELSE cache.access_token) + 1

\* get_access_token, lines 69-86, when the token is not near its expiry
GetAccessToken ==
    /\ pc = "request"
    /\ ~NeedsRefresh(LoadTokens)
    /\ cache' = LoadTokens
    /\ pc' = "send"
    /\ UNCHANGED <<disk, clock, attempts>>
    /\ UNCHANGED clientFrame

\* lines 71-80: the refresh succeeds and the new tokens are saved
GetAccessTokenRefresh ==
    /\ pc = "request"
    /\ NeedsRefresh(LoadTokens)
    /\ NextToken <= MaxTokens
    /\ disk' = [access_token |-> NextToken, expires_at |-> clock + ExpiresIn]
    /\ cache' = disk'
    /\ pc' = "send"
    /\ UNCHANGED <<clock, attempts>>
    /\ UNCHANGED clientFrame

\* lines 81-84: the refresh fails
GetAccessTokenRaise ==
    /\ pc = "request"
    /\ NeedsRefresh(LoadTokens)
    /\ cache' = LoadTokens
    /\ pc' = "auth_error"
    /\ UNCHANGED <<disk, clock, attempts>>
    /\ UNCHANGED clientFrame

\* client.py lines 123-147: an answer that ends the call
AnswerEnds ==
    /\ pc = "send"
    /\ \E status \in Statuses, e \in Elapsed :
          /\ status = 401 => attempts # <<>>
          /\ attempts' = Append(attempts, [token |-> cache.access_token, status |-> status])
          /\ clock' = clock + e
          /\ pc' = IF status >= 400 THEN "raised" ELSE "returned"
    /\ UNCHANGED <<disk, cache>>
    /\ UNCHANGED clientFrame

\* lines 127-132: the first 401 clears the copy in memory and calls again with
\* retry_on_401 = False
Answer401Retry ==
    /\ pc = "send"
    /\ attempts = <<>>
    /\ \E e \in Elapsed :
          /\ attempts' = Append(attempts, [token |-> cache.access_token, status |-> 401])
          /\ clock' = clock + e
    /\ cache' = NoTokens
    /\ pc' = "request"
    /\ UNCHANGED disk
    /\ UNCHANGED clientFrame

\* line 116: no answer within the timeout
AnswerTimeout ==
    /\ pc = "send"
    /\ clock' = clock + 30
    /\ pc' = "timed_out"
    /\ UNCHANGED <<disk, cache, attempts>>
    /\ UNCHANGED clientFrame

\* another invocation of the program refreshes the tokens in the file
OtherRefresh ==
    /\ pc \in {"request", "send"}
    /\ NextToken <= MaxTokens
    /\ disk' = [access_token |-> NextToken, expires_at |-> clock + ExpiresIn]
    /\ UNCHANGED <<pc, cache, clock, attempts>>
    /\ UNCHANGED clientFrame

ClientNext ==
    \/ GetAccessToken \/ GetAccessTokenRefresh \/ GetAccessTokenRaise
    \/ AnswerEnds \/ Answer401Retry \/ AnswerTimeout
    \/ OtherRefresh

SpecClient == ClientInit /\ [][ClientNext]_vars

----------------------------------------------------------------------------
(* Properties of import bank *)

\* the create calls of the second run
SecondRunPosts == SelectSeq(posts, LAMBDA p : p.run = 2)

\* every create call of the first run returned a document
FirstAllSucceeded == \A k \in DOMAIN first.created : "qb_id" \in DOMAIN first.created[k]

\* C9: in a dry run no create call reaches the ledger, a printed report has
\* created = 0 and an empty created list, and a second dry run on the same file
\* whose window queries are answered as in the first ends as the first did, with
\* the same report.
C9_DryRunFrame ==
    dry_run =>
        /\ posts = <<>>
        /\ report.status = "ok" =>
              (report.created = 0 /\ report.details.created = <<>>)
        /\ (run = 2 /\ pc \in {"done", "crashed"} /\ failed = first.failed) =>
              (pc = first.pc /\ report = first.report)

C9_Witness ==
    /\ dry_run
    /\ run = 2
    /\ pc = "done"
    /\ failed = first.failed
    /\ report.status = "ok"
    /\ report.unmatched > 0
    /\ report.probable_matches > 0

\* C10: a second run without dry-run, after a first run that completed with every
\* create call succeeding and with no window query failing in the second run,
\* issues no create call.
C10_RerunCreatesNothing ==
    (run = 2 /\ ~dry_run /\ first.pc = "done" /\ FirstAllSucceeded /\ failed = {})
        => SecondRunPosts = <<>>

\* the create calls of the current run
RunPosts == SelectSeq(posts, LAMBDA p : p.run = run)

\* C11: without dry-run the create calls of a run are, in order, one for each
\* Unmatched record and none for a paired record; the document is a Purchase
\* against account_id when the amount is negative and a Deposit into account_id
\* when it is zero or positive; a run that reports has made all of them.
C11_OneCreatePerUnmatched ==
    ~dry_run =>
        /\ Len(RunPosts) <= Len(unmatched)
        /\ \A k, l \in DOMAIN unmatched : k < l => unmatched[k] < unmatched[l]
        /\ \A k \in DOMAIN unmatched :
              \A q \in DOMAIN matched \cup DOMAIN probable :
                  /\ q \in DOMAIN matched => matched[q].imported # unmatched[k]
                  /\ q \in DOMAIN probable => probable[q].imported # unmatched[k]
        /\ \A k \in DOMAIN RunPosts :
              LET txn == imported[unmatched[k]]
                  body == RunPosts[k].body
              IN  /\ body.account = account_id
                  /\ body.entity = IF txn.amount < 0 THEN "Purchase" ELSE "Deposit"
                  /\ body.TotalAmt = Abs(txn.amount)
        /\ (pc = "done" /\ report.status = "ok") => Len(RunPosts) = Len(unmatched)

C11_Witness ==
    /\ ~dry_run
    /\ pc = "done"
    /\ report.status = "ok"
    /\ Len(matched) + Len(probable) > 0
    /\ \E k \in DOMAIN RunPosts : imported[unmatched[k]].amount = 0

\* C12: a create call that fails is recorded as an error in the entry of its own
\* record, the remaining Unmatched records are still attempted, the run does not
\* end in an exception once creation has begun, and the report carries one
\* created-detail entry per Unmatched record, in statement order.
C12_PartialFailure ==
    ~dry_run =>
        /\ pc = "crashed" => RunPosts = <<>>
        /\ (pc = "done" /\ report.status = "ok") =>
              /\ Len(report.details.created) = Len(unmatched)
              /\ Len(RunPosts) = Len(unmatched)
              /\ \A k \in DOMAIN unmatched :
                    /\ report.details.created[k].txn = imported[unmatched[k]]
                    /\ ("error" \in DOMAIN report.details.created[k]) <=> ~RunPosts[k].ok
                    /\ \A l \in DOMAIN unmatched : k < l => unmatched[k] < unmatched[l]

C12_Witness ==
    /\ ~dry_run
    /\ pc = "done"
    /\ report.status = "ok"
    /\ Len(RunPosts) = 2
    /\ ~RunPosts[1].ok
    /\ RunPosts[2].ok

\* C13: when the file parses to no records the run prints the "empty" report and
\* sends the ledger no query and no create call.
C13_EmptyTouchesNothing ==
    (pc # "parse" /\ ParseFile(file) = <<>>) =>
        /\ pc = "done"
        /\ report = [status |-> "empty"]
        /\ queries = <<>>
        /\ RunPosts = <<>>

C13_Witness ==
    /\ pc = "done"
    /\ report = [status |-> "empty"]
    /\ file.rows # <<>>

\* C14: a run whose file parses to at least one record, all of them with an empty
\* date, does not end in an exception.
C14_AllDatesEmptyNoCrash ==
    (imported # <<>> /\ \A k \in DOMAIN imported : imported[k].date = "")
        => pc # "crashed"

----------------------------------------------------------------------------
(* Properties of the ledger queries and of reconcile *)

\* the document types of the queries sent, in order
QueriedTypes == [k \in DOMAIN queries |-> queries[k].entity]

\* the records of one document type among those collected
CollectedOf(entity) == SelectSeq(existing, LAMBDA d : d.entity = entity)

\* every type of 'entities' was queried and gave its answer, or nothing if it failed
TypesAnswered(entities, lo, hi, cap) ==
    /\ QueriedTypes = entities
    /\ \A k \in DOMAIN entities :
          CollectedOf(entities[k]) =
              IF entities[k] \in failed
              THEN <<>>
              ELSE ReconResponse(ledger, entities[k], lo, hi, cap)

\* C15: in import, reconcile start and reconcile match a document type whose
\* query raises contributes no record, every type is still queried and the others
\* contribute their answers, and a command that ends in an exception does so
\* before its first query or in the matcher, never because of a query.
C15_QueryFailureSwallowed ==
    /\ pc = "match" =>
          TypesAnswered(BankEntities, queries[1].start, queries[1].end, MaxResults)
    /\ pc = "start_done" =>
          /\ TypesAnswered(StartEntities, NoKey, report.session.statement_date,
                           StartMaxResults)
          /\ report.session.transaction_count = Len(existing)
    /\ pc = "match_done" =>
          /\ TypesAnswered(MatchEntities, queries[1].start, queries[1].end, MaxResults)
          /\ report.qb_transactions = Len(existing)
    /\ pc = "start_raised" => queries = <<>>
    /\ pc \in {"crashed", "match_raised"} =>
          \/ queries = <<>>
          \/ MatchTransactions(imported, existing, tolerance_days).raised

C15_Witness ==
    /\ pc = "match_done"
    /\ failed = {"Deposit"}
    /\ CollectedOf("Purchase") # <<>>
    /\ CollectedOf("Payment") # <<>>

\* C16: the difference of a session is the statement balance minus the ledger
\* balance rounded to cents, the status is balanced exactly when the difference
\* is below one cent in magnitude, and statement 1000.00 against ledger 999.99
\* (difference 0.01) or the reverse (-0.01) is unbalanced.
C16_BalancedBelowCent ==
    \A k \in DOMAIN history :
        LET h == history[k]
            exact == h.statement_balance - h.qb_balance
        IN  /\ Abs(10 * h.difference - exact) <= 5
            /\ h.status \in {"balanced", "unbalanced"}
            /\ h.status = "balanced" <=> h.difference = 0
            /\ (h.statement_balance = 1000000 /\ h.qb_balance = 999990) =>
                  (h.difference = 1 /\ h.status = "unbalanced")
            /\ (h.statement_balance = 999990 /\ h.qb_balance = 1000000) =>
                  (h.difference = -1 /\ h.status = "unbalanced")

C16_Witness ==
    /\ pc = "start_done"
    /\ report.session.statement_balance = 1000000
    /\ report.session.qb_balance = 999990
    /\ report.session.status = "unbalanced"

\* the (account_id, statement_date) keys that were started
StartedKeys == {<<history[k].account_id, history[k].statement_date>> : k \in DOMAIN history}

\* the session written by the latest start on a key
LatestOn(key) ==
    LET ks == {k \in DOMAIN history :
                 <<history[k].account_id, history[k].statement_date>> = key}
    IN  history[CHOOSE k \in ks : \A l \in ks : l <= k]

\* C17: whatever commands have run, the store holds one session file for each key
\* that was started and no other, and the file of a key holds the session written
\* by the latest start on that key.
C17_StoreHoldsLatestStarts ==
    /\ Cardinality(store) = Cardinality(StartedKeys)
    /\ \A key \in StartedKeys :
          [name |-> SessionFile(key[1], key[2]), session |-> LatestOn(key)] \in store

C17_Witness ==
    /\ pc = "match_done"
    /\ Len(history) = 2
    /\ Cardinality(store) = 2

\* C18: when all the starts so far were for one account, status for that account
\* prints the stored session of the latest statement date, whatever the order in
\* which the starts were issued.
C18_StatusNewestByDate ==
    (pc = "status_done" /\ \A k \in DOMAIN history : history[k].account_id = account_id) =>
        /\ report.session.account_id = account_id
        /\ \A k \in DOMAIN history :
              DayOf(history[k].statement_date) <= DayOf(report.session.statement_date)
        /\ report.session =
              LatestOn(<<account_id, report.session.statement_date>>)

C18_Witness ==
    /\ pc = "status_done"
    /\ Len(history) = 2
    /\ history[1].account_id = account_id
    /\ history[2].account_id = account_id
    /\ history[1].statement_date = "2026-03-04"
    /\ history[2].statement_date = "2026-02-28"

\* C19: status or match for an account that was never started does not complete
\* normally.
C19_NoSessionIsFailure ==
    (\A k \in DOMAIN history : history[k].account_id # account_id) =>
        pc \notin {"status_none", "status_done", "match_done", "match_empty"}

\* C20: after match every record the queries returned, taken by document type
\* and Id, is either the ledger side of a pair or listed in outstanding_in_qb, and
\* not both.
C20_PairedOrOutstanding ==
    pc = "match_done" =>
        \A j \in DOMAIN existing :
            LET claimed == \E k \in DOMAIN Paired :
                              /\ existing[Paired[k].existing].entity = existing[j].entity
                              /\ existing[Paired[k].existing].Id = existing[j].Id
                listed == \E k \in DOMAIN report.details.outstanding_in_qb :
                              /\ report.details.outstanding_in_qb[k].type = existing[j].entity
                              /\ report.details.outstanding_in_qb[k].id = existing[j].Id
            IN  claimed <=> ~listed

----------------------------------------------------------------------------
(* Properties of the detection and the parsers *)

\* the number an amount text stands for once "," and "$" are taken out; "N/A"
\* stands for none
NumberTexts == {"-5.00", "5.00", "$1,234.56", "0"}

NumberOf(s) ==
    CASE s = "-5.00" -> -500
      [] s = "5.00" -> 500
      [] s = "$1,234.56" -> 123456
      [] s = "0" -> 0

\* C21: from a delimited-text file whose rows all have an amount field, the
\* parser returns without raising, and its output is, in file order, exactly the
\* rows whose amount text stands for a number, each with that number and with
\* the row's own date.
C21_CsvKeepsParsableRows ==
    ( /\ pc \in {"parsed", "parse_raised"}
      /\ file.format = "csv"
      /\ detected.format = "csv"
      /\ \A k \in DOMAIN file.rows : file.rows[k].Amount \notin {NoKey, None} ) =>
        LET HasNumber(r) == r.Amount \in NumberTexts
            kept == SelectSeq(file.rows, HasNumber)
        IN  /\ pc = "parsed"
            /\ Len(imported) = Len(kept)
            /\ \A k \in DOMAIN kept :
                   /\ imported[k].amount = NumberOf(kept[k].Amount)
                   /\ imported[k].date = GetOr(kept[k].Date, "")

\* a row that does not parse stands before the row "$1,234.56", which is kept
C21_Witness ==
    /\ pc = "parsed"
    /\ file.format = "csv"
    /\ Len(file.rows) = 2
    /\ file.rows[1].Amount = "N/A"
    /\ file.rows[2].Amount = "$1,234.56"
    /\ Len(imported) = 1
    /\ imported[1].amount = 123456

\* C22: the parsers never end in an error over one record, and every record
\* they return has a non-empty date; a delimited-text row comes out only if the
\* file gave it a date and an amount.
C22_RecordsHaveDateAndAmount ==
    /\ pc # "parse_raised"
    /\ pc = "parsed" =>
          /\ \A k \in DOMAIN imported : imported[k].date \notin {"", None, NoKey}
          /\ file.format = "csv" =>
                Len(imported) <= Cardinality({k \in DOMAIN file.rows :
                                      /\ file.rows[k].Date \notin {"", None, NoKey}
                                      /\ file.rows[k].Amount \notin {"", None, NoKey}})

\* C23: with the hint "auto", a file with the extension .ofx, .qfx or .qbo goes
\* to the interchange backend unread, and every other file goes where its
\* first bytes say: to the interchange backend if they hold <OFX or OFXHEADER,
\* to the delimited-text backend otherwise.
C23_AutoRoutesByExtensionThenContent ==
    (pc # "detect" /\ file.hint = "auto") =>
        IF Lower(file.ext) \in {".ofx", ".qfx", ".qbo"}
        THEN detected = [format |-> "ofx", read |-> FALSE]
        ELSE detected.format = (IF file.head \in {"<OFX", "OFXHEADER"} THEN "ofx" ELSE "csv")

----------------------------------------------------------------------------
(* Properties of the query text *)

\* a value in which a single quote stands alone
HasLoneQuote(s) == s = "O'Neil"

\* C24: no query of import, reconcile start or reconcile match embeds a value
\* in which a single quote stands alone: each embedded date went through the
\* quote doubling first.
C24_EmbeddedValuesEscaped ==
    \A k \in DOMAIN queries :
        /\ ~HasLoneQuote(queries[k].start)
        /\ ~HasLoneQuote(queries[k].end)

----------------------------------------------------------------------------
(* Further properties of the matcher *)

\* the statement record and the ledger record carry one and the same non-empty
\* identifier
SameIdentifier(imp, ex) ==
    \/ (imp.fitid # "" /\ imp.fitid = GetOr(ex._fitid, ""))
    \/ (imp.check_number # "" /\ imp.check_number = GetOr(ex.DocNumber, ""))

\* C25: the two records of every Exact outcome pass the amount gate, are zero
\* days apart and carry the same non-empty identifier; a pair one day or more
\* apart, or a pair whose identifiers are both empty, is never Exact.
C25_ExactSameDaySameIdentifier ==
    \A k \in DOMAIN matched :
        LET imp == imported[matched[k].imported]
            ex == existing[matched[k].existing]
        IN  /\ AmountGate(imp.amount, ex.TotalAmt)
            /\ DayOf(Prefix10(imp.date)) # NoDay
            /\ DayOf(Prefix10(imp.date)) = DayOf(Prefix10(GetOr(ex.TxnDate, "")))
            /\ SameIdentifier(imp, ex)

\* a run with an Exact outcome by check number and a Probable outcome whose
\* records either share an identifier one day apart or are on the same day with
\* all identifiers empty
C25_Witness ==
    /\ pc = "returned"
    /\ \E k \in DOMAIN matched :
          imported[matched[k].imported].check_number
              = GetOr(existing[matched[k].existing].DocNumber, "")
    /\ \E k \in DOMAIN probable :
          LET imp == imported[probable[k].imported]
              ex == existing[probable[k].existing]
          IN  \/ /\ SameIdentifier(imp, ex)
                 /\ DaysDiff(imp.date, GetOr(ex.TxnDate, "")) = 1
              \/ /\ imp.fitid = "" /\ imp.check_number = ""
                 /\ GetOr(ex._fitid, "") = "" /\ GetOr(ex.DocNumber, "") = ""
                 /\ DaysDiff(imp.date, GetOr(ex.TxnDate, "")) = 0

----------------------------------------------------------------------------
(* Further properties of import bank *)

\* C26: once the window is computed, every statement record whose date parses
\* to a day d has its whole interval [d - tolerance, d + tolerance] inside the
\* window of the queries; a window end that is no date is taken as open.
C26_WindowCoversTolerance ==
    pc \in {"query", "match", "create"} =>
        \A i \in DOMAIN imported :
            LET d == DayOf(Prefix10(imported[i].date))
            IN  d # NoDay =>
                  /\ \/ DayOf(window.start) = NoDay
                     \/ DayOf(window.start) <= d - tolerance_days
                  /\ \/ DayOf(window.end) = NoDay
                     \/ DayOf(window.end) >= d + tolerance_days

\* C27: in every report the three bucket counts add up to total_imported, and
\* without dry-run the created count is the number of created-detail entries
\* that carry a ledger id.
C27_CountsAddUpCreatedSucceeded ==
    (pc = "done" /\ report.status = "ok") =>
        /\ report.matched + report.probable_matches + report.unmatched
              = report.total_imported
        /\ ~dry_run =>
              report.created
                = Cardinality({k \in DOMAIN report.details.created :
                                  "qb_id" \in DOMAIN report.details.created[k]})

----------------------------------------------------------------------------
(* Properties of the client *)

\* C28: a request answered with 401 is sent a second time and never a third,
\* the second attempt carries another access token than the rejected one, and a
\* second 401 ends the call in an error.
C28_RetryOnceWithFreshToken ==
    /\ Len(attempts) <= 2
    /\ Len(attempts) = 2 =>
          /\ attempts[1].status = 401
          /\ attempts[2].token # attempts[1].token
          /\ attempts[2].status = 401 => pc = "raised"
    /\ (pc \in {"returned", "raised"} /\ attempts[1].status = 401) => Len(attempts) = 2

----------------------------------------------------------------------------
(* Properties of the stored sessions and of the ledger order *)

\* C29: the session that status prints for an account is a session of that
\* account.
C29_StatusOwnAccountOnly ==
    pc = "status_done" => report.session.account_id = account_id

\* the orders in which a list of n records can be handed over
Orders(n) == {f \in [1..n -> 1..n] : \A a, b \in 1..n : a # b => f[a] # f[b]}

\* where a run puts statement record i; a run that raises puts it nowhere
BucketOf(r, i) ==
    IF r.raised THEN "none"
    ELSE IF \E k \in DOMAIN r.matched : r.matched[k].imported = i THEN "exact"
    ELSE IF \E k \in DOMAIN r.probable : r.probable[k].imported = i THEN "probable"
    ELSE "unmatched"

\* C30: with the statement list and the tolerance fixed, every order of the
\* ledger list puts each statement record into the same bucket.
C30_BucketIndependentOfLedgerOrder ==
    (pc = "loop" /\ idx = 0) =>
        \A f \in Orders(Len(existing)) :
            LET shuffled == [k \in 1..Len(existing) |-> existing[f[k]]]
                as_given == MatchTransactions(imported, existing, tolerance_days)
                permuted == MatchTransactions(imported, shuffled, tolerance_days)
            IN  \A i \in DOMAIN imported : BucketOf(as_given, i) = BucketOf(permuted, i)

====
